---- MODULE Spec2Model ----
(***************************************************************************)
(* A model of the arXiv paper bot: the chunking of long HTML messages,     *)
(* the aggregation of fetched papers in send_daily_papers / today_command, *)
(* the normalisation of paper identifiers, the /abstract handlers, the     *)
(* date filter of fetch_arxiv_papers, the pagination of                    *)
(* fetch_medarxiv_papers, the renderers and the delivery loop.             *)
(*                                                                         *)
(* A Python str is a sequence of one-character strings.  Python indexes    *)
(* from 0 and TLA+ from 1: s[:k] is Sub(s, 1, k), s[k:] is Sub(s, k + 1,    *)
(* Len(s)) and s[k - 1] is s[k].                                           *)
(***************************************************************************)
EXTENDS Integers, Sequences, FiniteSets, TLC

VARIABLES
    message,          \* chunk_html_message: the argument message
    max_length,       \* chunk_html_message: the argument max_length
    chunks,           \* chunk_html_message: the returned list
    cuts,             \* for each chunk closed inside the loop: was it closed by a cut
    cpc,              \* "call" before chunk_html_message ran, "done" after
    handler,          \* which aggregation runs: send_daily_papers or today_command;
                      \* for fetch_arxiv_papers: who called it
    topics,           \* config['topics']
    start_date,       \* the requested date range: day numbers in the aggregation,
                      \* datetimes in fetch_arxiv_papers
    end_date,
    fetched,          \* what the provider produced before the fetch returned or raised
    results,          \* the list fetch_arxiv_papers returned to the handler
    idx,              \* number of records of results the loop has processed
    all_papers,       \* the dict all_papers, as its items in insertion order
    papers_by_topic,  \* the dict papers_by_topic, as a function on its keys
    apc,              \* position of the handler
    fetch_error,      \* what the fetch raised, "none" when it returned
    id_in,            \* the identifier string given to a normaliser
    id_out,           \* what the normaliser returned
    id_back,          \* what the second normaliser returned, given id_out
    id_op,            \* which normalisers ran
    max_results,      \* fetch_medarxiv_papers: the argument max_results
    all_results,      \* fetch_medarxiv_papers: the list all_results
    cursor,           \* fetch_medarxiv_papers: the cursor of the next page
    requests,         \* the requests sent to the provider and what it answered
    returned,         \* what the medRxiv function returned
    mpc,              \* position of the medRxiv function
    authorized_users, \* config['authorized_users']
    send_fails,       \* for each recipient: which sends to it raise
    topic_messages,   \* for each topic message: is it chunked, how many chunks
    sends,            \* the send_message calls made, in order, and how they ended
    dpc,              \* position of the delivery loop
    paper_list,       \* the list of papers given to a renderer
    rendered,         \* the message the renderer built
    fpc,              \* which renderer ran
    config,           \* the global config of telegram_bot.py
    update,           \* the last command received: who sent it, its name, its text
    reply,            \* what the handler of the last command answered
    fetch_calls,      \* the provider lookups the last command made
    added             \* the user ids authorize_user has appended so far

chunk_vars == <<message, max_length, chunks, cuts, cpc>>
agg_vars == <<handler, topics, start_date, end_date, fetched, results, idx,
              all_papers, papers_by_topic, apc, fetch_error>>
id_vars == <<id_in, id_out, id_back, id_op>>
med_vars == <<max_results, all_results, cursor, requests, returned, mpc>>
dlv_vars == <<authorized_users, send_fails, topic_messages, sends, dpc>>
fmt_vars == <<paper_list, rendered, fpc>>
bot_vars == <<config, update, reply, fetch_calls, added>>
ext_vars == <<med_vars, dlv_vars, fmt_vars, bot_vars>>
vars == <<chunk_vars, agg_vars, id_vars, ext_vars>>

(***************************************************************************)
(* Bounds of the model.                                                    *)
(***************************************************************************)
MaxMsgLen == 7        \* longest message of SpecChunk
MaxLength == 4        \* largest max_length of SpecChunk

NL == "\n"
SP == " "
NLNL == <<NL, NL>>

(***************************************************************************)
(* Python str operations.                                                  *)
(***************************************************************************)
\* s[m - 1 : n] of Python: the slice clamps its ends to the string
Sub(s, m, n) ==
    LET lo == IF m < 1 THEN 1 ELSE m
        hi == IF n > Len(s) THEN Len(s) ELSE n
    IN IF lo > hi THEN <<>> ELSE [k \in 1..(hi - lo + 1) |-> s[lo + k - 1]]

\* s[i .. i + Len(pat) - 1] = pat
MatchAt(s, i, pat) ==
    /\ i + Len(pat) - 1 <= Len(s)
    /\ \A k \in 1..Len(pat) : s[i + k - 1] = pat[k]

\* pat in s
Contains(s, pat) == \E i \in 1..(Len(s) + 1) : MatchAt(s, i, pat)

\* s.startswith(pat)
StartsWith(s, pat) == MatchAt(s, 1, pat)

\* the largest element of a non-empty set of integers
Max(S) == CHOOSE x \in S : \A y \in S : y <= x

\* the smallest element of a non-empty set of integers
Min(S) == CHOOSE x \in S : \A y \in S : x <= y

\* s.split(sep), for a non-empty sep: the pieces of s from position from on,
\* cut at the leftmost occurrences of sep that do not overlap
RECURSIVE SplitFrom(_, _, _)
SplitFrom(s, sep, from) ==
    LET found == {i \in from..Len(s) : MatchAt(s, i, sep)}
    IN IF found = {} THEN <<Sub(s, from, Len(s))>>
       ELSE LET i == Min(found)
            IN <<Sub(s, from, i - 1)>> \o SplitFrom(s, sep, i + Len(sep))

Split(s, sep) == SplitFrom(s, sep, 1)

\* sep.join(parts)
RECURSIVE Join(_, _)
Join(parts, sep) ==
    IF parts = <<>> THEN <<>>
    ELSE IF Len(parts) = 1 THEN parts[1]
    ELSE parts[1] \o sep \o Join(Tail(parts), sep)

\* s.replace(old, new), for a non-empty old
Replace(s, old, new) == Join(Split(s, old), new)

Last(s) == s[Len(s)]

\* all sequences over S of length at most n
SeqsUpTo(S, n) == UNION {[1..k -> S] : k \in 0..n}

(***************************************************************************)
(* chunk_html_message                                                      *)
(***************************************************************************)
\* SafeLength without the search for a space: every cut is a hard cut
SafeLength_NoSearch(paragraph, maxlen) == 0

\* the while loop looking for a space, started at safe_length = maxlen: it
\* ends at the largest n <= maxlen with paragraph[n - 1] == ' ', or at 0
SafeLength(paragraph, maxlen) ==
    Max({0} \cup {n \in 1..maxlen : paragraph[n] = SP})

\* one iteration of "for paragraph in paragraphs"; st.cuts records, for every
\* chunk the loop appends, whether its end is a cut inside a paragraph
ChunkParagraph(st, paragraph, maxlen) ==
    IF Len(st.current_chunk) + Len(paragraph) + 2 > maxlen
    THEN IF st.current_chunk # <<>>
         THEN [chunks |-> Append(st.chunks, st.current_chunk),
               current_chunk |-> paragraph,
               cuts |-> Append(st.cuts, FALSE)]
         ELSE IF Len(paragraph) > maxlen
              THEN LET safe_length == SafeLength(paragraph, maxlen)
                       at == IF safe_length > 0 THEN safe_length ELSE maxlen
                   IN [chunks |-> Append(st.chunks, Sub(paragraph, 1, at)),
                       current_chunk |-> Sub(paragraph, at + 1, Len(paragraph)),
                       cuts |-> Append(st.cuts, TRUE)]
              ELSE [st EXCEPT !.current_chunk = paragraph]
    ELSE IF st.current_chunk # <<>>
         THEN [st EXCEPT !.current_chunk = st.current_chunk \o NLNL \o paragraph]
         ELSE [st EXCEPT !.current_chunk = paragraph]

RECURSIVE ChunkLoop(_, _, _, _)
ChunkLoop(st, paragraphs, i, maxlen) ==
    IF i > Len(paragraphs) THEN st
    ELSE ChunkLoop(ChunkParagraph(st, paragraphs[i], maxlen), paragraphs, i + 1, maxlen)

\* the state of the function after the loop, for a message longer than maxlen
ChunkRun(msg, maxlen) ==
    ChunkLoop([chunks |-> <<>>, current_chunk |-> <<>>, cuts |-> <<>>],
              Split(msg, NLNL), 1, maxlen)

\* chunk_html_message without the flush of the last current_chunk
chunk_html_message_NoFlush(msg, maxlen) ==
    IF Len(msg) <= maxlen THEN <<msg>> ELSE ChunkRun(msg, maxlen).chunks

chunk_html_message(msg, maxlen) ==
    IF Len(msg) <= maxlen THEN <<msg>>
    ELSE LET st == ChunkRun(msg, maxlen)
         IN IF st.current_chunk # <<>>
            THEN Append(st.chunks, st.current_chunk)
            ELSE st.chunks

\* the kinds of the boundaries that end the chunks closed inside the loop
chunk_cuts(msg, maxlen) ==
    IF Len(msg) <= maxlen THEN <<>> ELSE ChunkRun(msg, maxlen).cuts

(***************************************************************************)
(* Calls of chunk_html_message on arbitrary messages.                      *)
(***************************************************************************)
ChunkAlphabet == {"x", SP, NL}

AggIdle ==
    /\ handler = "none" /\ topics = <<>> /\ start_date = 0 /\ end_date = 0
    /\ fetched = <<>> /\ results = <<>> /\ idx = 0
    /\ all_papers = <<>> /\ papers_by_topic = <<>> /\ apc = "idle"
    /\ fetch_error = "none"

IdIdle == id_in = <<>> /\ id_out = <<>> /\ id_back = <<>> /\ id_op = "none"
MedIdle ==
    /\ max_results = 0 /\ all_results = <<>> /\ cursor = 0 /\ requests = <<>>
    /\ returned = <<>> /\ mpc = "idle"
DlvIdle ==
    /\ authorized_users = <<>> /\ send_fails = <<>> /\ topic_messages = <<>>
    /\ sends = <<>> /\ dpc = [at |-> "idle", t |-> 0, u |-> 0, c |-> 0]
FmtIdle == paper_list = <<>> /\ rendered = <<>> /\ fpc = "idle"
NoConfig ==
    [topics |-> <<>>, notification_time |-> <<>>, timezone |-> <<>>,
     authorized_users |-> <<>>]
NoUpdate == [user_id |-> 0, command |-> "none", rest |-> <<>>]
BotIdle ==
    /\ config = NoConfig /\ update = NoUpdate /\ reply = "none"
    /\ fetch_calls = <<>> /\ added = {}
ExtIdle == MedIdle /\ DlvIdle /\ FmtIdle /\ BotIdle

InitChunk ==
    /\ message \in SeqsUpTo(ChunkAlphabet, MaxMsgLen)
    /\ max_length \in 1..MaxLength
    /\ chunks = <<>> /\ cuts = <<>> /\ cpc = "call"
    /\ AggIdle /\ IdIdle
    /\ ExtIdle

\* the early return: the message fits
ChunkShort ==
    /\ cpc = "call"
    /\ Len(message) <= max_length
    /\ chunks' = chunk_html_message(message, max_length)
    /\ cuts' = chunk_cuts(message, max_length)
    /\ cpc' = "done"
    /\ UNCHANGED <<message, max_length, agg_vars, id_vars, ext_vars>>

\* the split into paragraphs, the loop and the final flush
ChunkSplit ==
    /\ cpc = "call"
    /\ Len(message) > max_length
    /\ chunks' = chunk_html_message(message, max_length)
    /\ cuts' = chunk_cuts(message, max_length)
    /\ cpc' = "done"
    /\ UNCHANGED <<message, max_length, agg_vars, id_vars, ext_vars>>

NextChunk == ChunkShort \/ ChunkSplit

SpecChunk == InitChunk /\ [][NextChunk]_vars

(***************************************************************************)
(* Properties of chunk_html_message.                                       *)
(***************************************************************************)
\* the chunks put together again: "\n\n" between two chunks separated at a
\* paragraph boundary, nothing between two chunks separated by a cut
RECURSIVE Rejoin(_, _, _)
Rejoin(cs, ks, i) ==
    IF i > Len(cs) THEN <<>>
    ELSE IF i = Len(cs) THEN cs[i]
    ELSE cs[i] \o (IF ks[i] THEN <<>> ELSE NLNL) \o Rejoin(cs, ks, i + 1)

\* C1: every chunk chunk_html_message returns has length <= max_length, for
\* every message and every positive max_length.
C1_LengthBound ==
    cpc = "done" => \A i \in 1..Len(chunks) : Len(chunks[i]) <= max_length

\* C2: the chunks, rejoined with "\n\n" at the paragraph boundaries and with
\* nothing at the cuts, equal the input message.
C2_ContentPreserved ==
    cpc = "done" => Rejoin(chunks, cuts, 1) = message

\* C3: a message longer than max_length gives more than one chunk, and the
\* chunks joined with "\n\n", with every "\n\n\n\n" then replaced by "\n\n",
\* equal the message.
C3_JoinGivesMessage ==
    (cpc = "done" /\ Len(message) > max_length) =>
        /\ Len(chunks) > 1
        /\ Replace(Join(chunks, NLNL), NLNL \o NLNL, NLNL) = message

(***************************************************************************)
(* The renderers.  The emoji of the templates are single characters (the   *)
(* label emoji is two code points); the literal text of the f-strings is   *)
(* spelled out character by character.                                     *)
(***************************************************************************)
QUOTE == "\""
PAGE == "U+1F4C4"
PEOPLE == "U+1F465"
CALENDAR == "U+1F4C5"
LABEL == "U+1F3F7"
VS16 == "U+FE0F"
LINK == "U+1F517"
MEMO == "U+1F4DD"
BOOKS == "U+1F4DA"

T_TitleOpen ==
    <<PAGE, SP, "<", "b", ">">>
T_TitleClose ==
    <<"<", "/", "b", ">", NL, NL>>
T_Authors ==
    <<PEOPLE, SP, "<", "b", ">", "A", "u", "t", "h", "o", "r", "s", ":", "<", "/", "b",
      ">", SP>>
T_Published ==
    <<NL, NL, CALENDAR, SP, "<", "b", ">", "P", "u", "b", "l", "i", "s", "h", "e", "d",
      ":", "<", "/", "b", ">", SP>>
T_Categories ==
    <<NL, LABEL, VS16, SP, "<", "b", ">", "C", "a", "t", "e", "g", "o", "r", "i", "e",
      "s", ":", "<", "/", "b", ">", SP>>
T_LinkOpen ==
    <<NL, LINK, SP, "<", "a", SP, "h", "r", "e", "f", "=", QUOTE>>
T_LinkClose ==
    <<QUOTE, ">", "P", "D", "F", SP, "L", "i", "n", "k", "<", "/", "a", ">", NL, NL>>
T_Abstract ==
    <<MEMO, SP, "<", "b", ">", "A", "b", "s", "t", "r", "a", "c", "t", ":", "<", "/",
      "b", ">", NL>>
T_HeadOpen ==
    <<BOOKS, SP, "<", "b", ">">>
T_HeadClose ==
    <<SP, "P", "a", "p", "e", "r", "s", SP, "T", "o", "d", "a", "y", "<", "/", "b",
      ">", SP, BOOKS, NL, NL>>
T_ItemOpen ==
    <<".", SP, "<", "b", ">">>
T_ItemClose ==
    <<"<", "/", "b", ">", NL>>
T_ItemAuthors ==
    <<SP, SP, SP, "A", "u", "t", "h", "o", "r", "s", ":", SP>>
T_ItemUse ==
    <<NL, SP, SP, SP, "U", "s", "e", SP, "/", "a", "b", "s", "t", "r", "a", "c", "t">>
T_ItemDetails ==
    <<SP, "t", "o", SP, "v", "i", "e", "w", SP, "d", "e", "t", "a", "i", "l", "s", NL,
      NL>>
T_EtAl ==
    <<SP, "e", "t", SP, "a", "l", ".">>
T_CommaSpace ==
    <<",", SP>>
T_Amp ==
    <<"&", "a", "m", "p", ";">>
T_Lt ==
    <<"&", "l", "t", ";">>
T_Gt ==
    <<"&", "g", "t", ";">>

\* escape_html with the '&' replaced last
escape_html_AmpLast(text) ==
    IF text = <<>> THEN <<>>
    ELSE Replace(Replace(Replace(text, <<"<">>, T_Lt), <<">">>, T_Gt), <<"&">>, T_Amp)

escape_html(text) ==
    IF text = <<>> THEN <<>>
    ELSE Replace(Replace(Replace(text, <<"&">>, T_Amp), <<"<">>, T_Lt), <<">">>, T_Gt)

paper_id_without_dot(paper_id) ==
    IF Contains(paper_id, <<".">>) THEN Replace(paper_id, <<".">>, <<>>) ELSE paper_id

\* paper_id_with_dot with the dot one place late
paper_id_with_dot_AfterFive(paper_id) ==
    IF Contains(paper_id, <<".">>) THEN paper_id
    ELSE Sub(paper_id, 1, 5) \o <<".">> \o Sub(paper_id, 6, Len(paper_id))

paper_id_with_dot(paper_id) ==
    IF Contains(paper_id, <<".">>) THEN paper_id
    ELSE Sub(paper_id, 1, 4) \o <<".">> \o Sub(paper_id, 5, Len(paper_id))

\* [f(x) for x in xs]
EscapeEach(xs) == [k \in 1..Len(xs) |-> escape_html(xs[k])]

\* xs[:n] without the limit
Take_All(xs, n) == xs

\* xs[:n]
Take(xs, n) == Sub(xs, 1, IF Len(xs) < n THEN Len(xs) ELSE n)

\* str(i) for an i >= 0
Digit(d) == <<"0", "1", "2", "3", "4", "5", "6", "7", "8", "9">>[d + 1]

RECURSIVE Str(_)
Str(i) == IF i < 10 THEN <<Digit(i)>> ELSE Str(i \div 10) \o <<Digit(i % 10)>>

\* the message of paper_abstract and abstract_no_space for the dict paper
AbstractMessage(paper) ==
    LET title == escape_html(paper.title)
        authors == Join(EscapeEach(paper.authors), T_CommaSpace)
        abstract == escape_html(paper.abstract)
        categories == Join(paper.categories, T_CommaSpace)
    IN T_TitleOpen \o title \o T_TitleClose
       \o T_Authors \o authors
       \o T_Published \o paper.published
       \o T_Categories \o categories
       \o T_LinkOpen \o paper.link \o T_LinkClose
       \o T_Abstract \o abstract

\* the authors line of a list item: the first three, " et al." for more
ListAuthors(paper) ==
    LET authors == Join(Take(paper.authors, 3), T_CommaSpace)
    IN escape_html(IF Len(paper.authors) > 3 THEN authors \o T_EtAl ELSE authors)

\* the item for papers[i], numbered i, of today_command / send_daily_papers
ListItem(i, paper) ==
    Str(i) \o T_ItemOpen \o escape_html(paper.title) \o T_ItemClose
    \o T_ItemAuthors \o ListAuthors(paper)
    \o T_ItemUse \o paper_id_without_dot(Last(Split(paper.id, <<"/">>)))
    \o T_ItemDetails

RECURSIVE ListItems(_, _)
ListItems(papers, i) ==
    IF i > Len(papers) THEN <<>>
    ELSE ListItem(i, papers[i]) \o ListItems(papers, i + 1)

\* the message for one topic of today_command / send_daily_papers
ListMessage(topic, papers) ==
    T_HeadOpen \o topic \o T_HeadClose \o ListItems(papers, 1)

(***************************************************************************)
(* Calls of chunk_html_message on the messages the renderers produce.      *)
(***************************************************************************)
MaxRenderLength == 120   \* largest max_length of SpecRender
MaxAuthors == 4          \* longest author list of a rendered paper
MaxPapers == 2           \* longest paper list of a rendered topic message

\* user-controlled text: plain, with spaces, with markup characters, long
RenderTexts ==
    {<<>>, <<"t">>, <<"t", SP, "t">>, <<"<", "t", ">">>, <<"a", "&", "b">>,
     <<"t", "t", "t", "t", "t", "t", "t", "t">>}

AuthorNames == << <<"A">>, <<"B", SP, "C">>, <<"<", "D", ">">> >>

\* the author list of n names
AuthorList(n) == [k \in 1..n |-> AuthorNames[((k - 1) % Len(AuthorNames)) + 1]]

CS_CV == <<"c", "s", ".", "C", "V">>
CS_AI == <<"c", "s", ".", "A", "I">>
CS_LG == <<"c", "s", ".", "L", "G">>

ArxivEntryId ==
    <<"h", "t", "t", "p", ":", "/", "/", "a", "/", "2", "4", "0", "1", ".", "1", "2", "3", "4", "5">>
VersionedId == <<"2", "4", "0", "1", ".", "6", "7", "8", "9", "0", "v", "2">>
EntryIds == {ArxivEntryId, VersionedId}

\* the dicts fetch_paper_by_id returns to the /abstract handlers
AbstractPapers ==
    [title : RenderTexts,
     authors : {AuthorList(n) : n \in 0..MaxAuthors},
     abstract : {<<"a", SP, "<", SP, "b">>, <<"t", "t", "t", "t", "t", "t", "t", "t">>},
     categories : {<<CS_CV, CS_AI>>},
     published : {<<"2", "0", "2", "4", "-", "0", "1", "-", "0", "2">>},
     link : {<<"h", "t", "t", "p", ":", "/", "/", "a", "/", "p">>}]

\* the papers of a topic group
ListPapers ==
    {[title |-> <<"t", SP, "t">>, authors |-> AuthorList(1), id |-> ArxivEntryId],
     [title |-> <<"<", "t", ">">>, authors |-> AuthorList(MaxAuthors), id |-> ArxivEntryId],
     [title |-> <<"t">>, authors |-> AuthorList(2), id |-> VersionedId]}

InitRender ==
    /\ message = <<>> /\ max_length = 1
    /\ chunks = <<>> /\ cuts = <<>> /\ cpc = "render"
    /\ AggIdle /\ IdIdle
    /\ ExtIdle

\* paper_abstract / abstract_no_space build the message of one paper
RenderAbstract ==
    /\ cpc = "render"
    /\ \E paper \in AbstractPapers : message' = AbstractMessage(paper)
    /\ max_length' \in 1..MaxRenderLength
    /\ cpc' = "call"
    /\ UNCHANGED <<chunks, cuts, agg_vars, id_vars, ext_vars>>

\* today_command / send_daily_papers build the message of one topic
RenderList ==
    /\ cpc = "render"
    /\ \E topic \in {CS_CV, <<"L", "L", "M">>} :
       \E n \in 1..MaxPapers : \E papers \in [1..n -> ListPapers] :
           message' = ListMessage(topic, papers)
    /\ max_length' \in 1..MaxRenderLength
    /\ cpc' = "call"
    /\ UNCHANGED <<chunks, cuts, agg_vars, id_vars, ext_vars>>

NextRender == RenderAbstract \/ RenderList \/ ChunkShort \/ ChunkSplit

SpecRender == InitRender /\ [][NextRender]_vars

\* does s hold complete tags only: every '<' of s has its '>' in s with no
\* other '<' before it, and every '>' of s has its '<' in s
TagsComplete(s) ==
    /\ \A i \in 1..Len(s) : s[i] = "<" =>
          \E j \in (i + 1)..Len(s) :
              /\ s[j] = ">"
              /\ \A k \in (i + 1)..(j - 1) : s[k] \notin {"<", ">"}
    /\ \A j \in 1..Len(s) : s[j] = ">" =>
          \E i \in 1..(j - 1) :
              /\ s[i] = "<"
              /\ \A k \in (i + 1)..(j - 1) : s[k] \notin {"<", ">"}

MaxResults == 3      \* longest list the fetch returns

Keys(d) == {d[k].key : k \in 1..Len(d)}

\* d[key], for a key of d
Get(d, key) == d[CHOOSE k \in 1..Len(d) : d[k].key = key].value

\* d[key] = value
Put(d, key, value) ==
    IF key \in Keys(d)
    THEN [k \in 1..Len(d) |-> IF d[k].key = key THEN [key |-> key, value |-> value] ELSE d[k]]
    ELSE Append(d, [key |-> key, value |-> value])

Values(d) == [k \in 1..Len(d) |-> d[k].value]

\* x in xs, for a list xs
InList(x, xs) == \E k \in 1..Len(xs) : xs[k] = x

\* GroupPaper without the test "category in config['topics']"
RECURSIVE GroupPaper_AnyCategory(_, _, _, _)
GroupPaper_AnyCategory(by_topic, paper, config_topics, k) ==
    IF k > Len(paper.categories) THEN by_topic
    ELSE LET category == paper.categories[k]
             with_key == IF category \notin Keys(by_topic)
                         THEN Put(by_topic, category, <<>>) ELSE by_topic
         IN GroupPaper_AnyCategory(
                Put(with_key, category, Append(Get(with_key, category), paper)),
                paper, config_topics, k + 1)

\* "for category in paper['categories']": the categories from position k on
RECURSIVE GroupPaper(_, _, _, _)
GroupPaper(by_topic, paper, config_topics, k) ==
    IF k > Len(paper.categories) THEN by_topic
    ELSE LET category == paper.categories[k]
             with_key == IF category \notin Keys(by_topic)
                         THEN Put(by_topic, category, <<>>) ELSE by_topic
         IN IF InList(category, config_topics)
            THEN GroupPaper(Put(with_key, category, Append(Get(with_key, category), paper)),
                            paper, config_topics, k + 1)
            ELSE GroupPaper(by_topic, paper, config_topics, k + 1)

\* AggregatePaper without the test "paper_id not in all_papers": the last
\* record of an identifier replaces the earlier one
AggregatePaper_LastWins(st, paper, config_topics) ==
    [all_papers |-> Put(st.all_papers, paper.id, paper),
     papers_by_topic |-> st.papers_by_topic]

\* the body of "for paper in results", on the two dicts
AggregatePaper(st, paper, config_topics) ==
    LET paper_id == paper.id
    IN IF paper_id \notin Keys(st.all_papers)
       THEN [all_papers |-> Put(st.all_papers, paper_id, paper),
             papers_by_topic |-> GroupPaper(st.papers_by_topic, paper, config_topics, 1)]
       ELSE st

\* what the provider can hold: two identifiers, a paper of two tracked
\* categories, of one, and of an untracked one, published on the last day of
\* the range or two days before it
PublishedDays == {0, 2}
Papers ==
    [id : EntryIds,
     categories : {<<CS_CV, CS_AI>>, <<CS_AI>>, <<CS_LG>>},
     published : PublishedDays]

TopicConfigs == {<<CS_CV, CS_AI>>, <<CS_AI>>}

InitAgg ==
    /\ message = <<>> /\ max_length = 1 /\ chunks = <<>> /\ cuts = <<>> /\ cpc = "idle"
    /\ IdIdle
    /\ ExtIdle
    /\ handler \in {"send_daily_papers", "today_command"}
    /\ topics \in TopicConfigs
    /\ end_date = 2
    \* send_daily_papers asks for today..today, today_command for yesterday..now
    /\ start_date = IF handler = "send_daily_papers" THEN end_date ELSE end_date - 1
    /\ fetched = <<>> /\ results = <<>> /\ idx = 0
    /\ all_papers = <<>> /\ papers_by_topic = <<>>
    /\ apc = "fetch" /\ fetch_error = "none"

\* fetch_arxiv_papers returns a list of paper dicts to the handler.  The
\* handler reads paper['id'] and paper['categories'] and passes the dates as
\* '%Y-%m-%d' strings, which is what a replaced fetch function (the tests
\* patch it) is given; the list is whatever that function returns.
FetchReturns ==
    /\ apc = "fetch"
    /\ results' \in SeqsUpTo(Papers, MaxResults)
    /\ fetched' = results'
    /\ apc' = "loop"
    /\ UNCHANGED <<handler, topics, start_date, end_date, idx, all_papers,
                   papers_by_topic, fetch_error, chunk_vars, id_vars, ext_vars>>

\* the one combined query of fetch_arxiv_papers raises after the provider
\* produced the records fetched (a transient provider error while paging):
\* nothing catches it before the handler's "except Exception", which logs,
\* in today_command replies "An error occurred", and returns
FetchRaises ==
    /\ apc = "fetch"
    /\ fetched' \in SeqsUpTo(Papers, MaxResults)
    /\ fetch_error' = "transient"
    /\ apc' = "error"
    /\ UNCHANGED <<handler, topics, start_date, end_date, results, idx, all_papers,
                   papers_by_topic, chunk_vars, id_vars, ext_vars>>

\* one iteration of "for paper in results"
AggregateStep ==
    /\ apc = "loop"
    /\ idx < Len(results)
    /\ LET st == AggregatePaper([all_papers |-> all_papers,
                                 papers_by_topic |-> papers_by_topic],
                                results[idx + 1], topics)
       IN /\ all_papers' = st.all_papers
          /\ papers_by_topic' = st.papers_by_topic
    /\ idx' = idx + 1
    /\ UNCHANGED <<handler, topics, start_date, end_date, fetched, results, apc,
                   fetch_error, chunk_vars, id_vars, ext_vars>>

\* "if not papers_by_topic": nothing to send, the handler returns
NoPapers ==
    /\ apc = "loop"
    /\ idx = Len(results)
    /\ papers_by_topic = <<>>
    /\ apc' = "empty"
    /\ UNCHANGED <<handler, topics, start_date, end_date, fetched, results, idx,
                   all_papers, papers_by_topic, fetch_error, chunk_vars, id_vars, ext_vars>>

\* the handler goes on to format and send the groups
Deliver ==
    /\ apc = "loop"
    /\ idx = Len(results)
    /\ papers_by_topic # <<>>
    /\ apc' = "deliver"
    /\ UNCHANGED <<handler, topics, start_date, end_date, fetched, results, idx,
                   all_papers, papers_by_topic, fetch_error, chunk_vars, id_vars, ext_vars>>

NextAgg == FetchReturns \/ FetchRaises \/ AggregateStep \/ NoPapers \/ Deliver

SpecAgg == InitAgg /\ [][NextAgg]_vars

(***************************************************************************)
(* Properties of the aggregation.                                          *)
(***************************************************************************)
InRange(paper) == start_date <= paper.published /\ paper.published <= end_date

\* the k-th smallest element of a set of integers
Nth(S, k) == CHOOSE x \in S : Cardinality({y \in S : y < x}) = k - 1

\* the positions, among the idx records processed, of the first record of
\* each identifier
FirstPositions ==
    {i \in 1..idx : \A j \in 1..(i - 1) : results[j].id # results[i].id}

\* the papers of the group of topic t, none when t is no key
GroupOf(t) == IF t \in Keys(papers_by_topic) THEN Get(papers_by_topic, t) ELSE <<>>

AggFinished == apc \in {"empty", "deliver", "error"}

\* C5: every paper placed in the full set or in a topic group lies in the
\* requested date range, whatever records the fetch function returns.
C5_DateFiltered ==
    /\ \A k \in 1..Len(all_papers) : InRange(all_papers[k].value)
    /\ \A k \in 1..Len(papers_by_topic) :
          \A m \in 1..Len(papers_by_topic[k].value) : InRange(papers_by_topic[k].value[m])

\* C6: the full set holds one paper per identifier, namely the first record
\* with that identifier among the records processed, in the order of the
\* first occurrences.
C6_Dedup ==
    apc \in {"loop", "empty", "deliver"} =>
        /\ Len(all_papers) = Cardinality(FirstPositions)
        /\ \A a \in 1..Len(all_papers) :
              LET i == Nth(FirstPositions, a)
              IN all_papers[a] = [key |-> results[i].id, value |-> results[i]]
        /\ \A a, b \in 1..Len(all_papers) : a # b => all_papers[a].key # all_papers[b].key

\* three records were aggregated: the third repeats the identifier of the
\* first with other content, the second has another identifier
C6_Witness ==
    /\ apc \in {"empty", "deliver"}
    /\ Len(results) = 3
    /\ results[3].id = results[1].id /\ results[3] # results[1]
    /\ results[2].id # results[1].id
    /\ Len(all_papers) = 2

\* C7: the group of a topic holds exactly the deduplicated papers that carry
\* the topic as a category, when the topic is configured, each once and in
\* the order of the full set; a topic without such a paper has no group; a
\* paper of no configured topic stays in the full set and is in no group.
C7_Grouping ==
    apc \in {"loop", "empty", "deliver"} =>
        /\ \A t \in {CS_CV, CS_AI, CS_LG} :
              LET Tracked(paper) == InList(t, paper.categories) /\ InList(t, topics)
              IN /\ GroupOf(t) = SelectSeq(Values(all_papers), Tracked)
                 /\ t \in Keys(papers_by_topic) <=> GroupOf(t) # <<>>
        /\ \A i \in 1..idx : results[i].id \in Keys(all_papers)

\* cs.CV and cs.AI are configured; a paper of categories [cs.CV, cs.AI] is
\* once in the full set and in both groups, and a paper of the untracked
\* cs.LG is in the full set
C7_Witness ==
    /\ apc = "deliver"
    /\ topics = <<CS_CV, CS_AI>>
    /\ \E a, b \in 1..Len(all_papers) :
          /\ all_papers[a].value.categories = <<CS_CV, CS_AI>>
          /\ InList(all_papers[a].value, GroupOf(CS_CV))
          /\ InList(all_papers[a].value, GroupOf(CS_AI))
          /\ all_papers[b].value.categories = <<CS_LG>>
          /\ Len(results) > Len(all_papers)

\* the fetch failed with a transient error after the provider had produced an
\* in-range paper of one configured topic and none of another
OneTopicFailed ==
    /\ fetch_error = "transient"
    /\ \E t1, t2 \in {CS_CV, CS_AI} :
          /\ InList(t1, topics) /\ InList(t2, topics)
          /\ \E k \in 1..Len(fetched) :
                InList(t1, fetched[k].categories) /\ InRange(fetched[k])
          /\ \A k \in 1..Len(fetched) : ~InList(t2, fetched[k].categories)

\* C8: when the fetch of one topic fails with a transient error and that of
\* another succeeds, the aggregation ends without an error and delivers the
\* papers of the succeeding topic.
C8_FailureIsolated ==
    (AggFinished /\ OneTopicFailed) =>
        /\ apc = "deliver"
        /\ \A k \in 1..Len(fetched) : \A t \in {CS_CV, CS_AI} :
              (InList(t, topics) /\ InList(t, fetched[k].categories) /\ InRange(fetched[k]))
                  => \E m \in 1..Len(GroupOf(t)) : GroupOf(t)[m].id = fetched[k].id

(***************************************************************************)
(* The normalisation of identifiers.                                       *)
(***************************************************************************)
\* s.lower(), for the letters the identifiers of the model hold
Lower(s) ==
    [k \in 1..Len(s) |->
        CASE s[k] = "A" -> "a" [] s[k] = "R" -> "r" [] s[k] = "X" -> "x"
          [] s[k] = "I" -> "i" [] s[k] = "V" -> "v" [] s[k] = "O" -> "o"
          [] s[k] = "G" -> "g" [] OTHER -> s[k]]

ARXIV_ORG == <<"a", "r", "x", "i", "v", ".", "o", "r", "g">>
DOT_PDF == <<".", "p", "d", "f">>
DOI_PREFIX == <<"1", "0", ".", "1", "1", "0", "1", "/">>

\* the clean-up of arxiv_api.fetch_paper_by_id: the identifier it looks up
ArxivCleanup(paper_id) ==
    LET p1 == IF Contains(paper_id, <<"/">>) THEN Last(Split(paper_id, <<"/">>))
              ELSE paper_id
        p2 == IF Contains(Lower(p1), ARXIV_ORG) THEN Last(Split(p1, ARXIV_ORG \o <<"/">>))
              ELSE p1
        p3 == IF Contains(p2, <<"a", "b", "s">>) THEN Last(Split(p2, <<"a", "b", "s", "/">>))
              ELSE p2
    IN IF Contains(p3, DOT_PDF) THEN Replace(p3, DOT_PDF, <<>>) ELSE p3

\* the /abstract path: paper_id_with_dot in the handler, then the clean-up
ArxivNormalize(x) == ArxivCleanup(paper_id_with_dot(x))

IsDigit(c) == c \in {"0", "1", "2", "3", "4", "5", "6", "7", "8", "9"}

\* the end of a match of \d{4}\.\d{2}\.\d{2}\.\d+ that starts at i, or 0:
\* \d+ is greedy, it takes the whole run of digits
DatedSuffixEnd(s, i) ==
    LET shape == <<"d", "d", "d", "d", ".", "d", "d", ".", "d", "d", ".", "d">>
        fits == /\ i + Len(shape) - 1 <= Len(s)
                /\ \A k \in 1..Len(shape) :
                      IF shape[k] = "d" THEN IsDigit(s[i + k - 1]) ELSE s[i + k - 1] = "."
    IN IF ~fits THEN 0
       ELSE Max({j \in (i + Len(shape) - 1)..Len(s) :
                    \A k \in (i + Len(shape) - 1)..j : IsDigit(s[k])})

\* re.search(r'(10\.1101/\d{4}\.\d{2}\.\d{2}\.\d+)', s): the leftmost match,
\* or <<>> for no match
SearchDoi(s) ==
    LET found == {i \in 1..Len(s) :
                     MatchAt(s, i, DOI_PREFIX) /\ DatedSuffixEnd(s, i + Len(DOI_PREFIX)) > 0}
    IN IF found = {} THEN <<>>
       ELSE LET i == Min(found)
            IN Sub(s, i, DatedSuffixEnd(s, i + Len(DOI_PREFIX)))

\* the clean-up of medarxiv_api.fetch_paper_by_id: the DOI it looks up
DoiNormalize(paper_id) ==
    IF StartsWith(paper_id, DOI_PREFIX) THEN paper_id
    ELSE IF Contains(paper_id, DOI_PREFIX)
         THEN IF SearchDoi(paper_id) # <<>> THEN SearchDoi(paper_id) ELSE paper_id
         ELSE DOI_PREFIX \o paper_id

DOTTED_ID == <<"2", "4", "0", "1", ".", "1", "2", "3", "4", "5">>
COMPACT_ID == <<"2", "4", "0", "1", "1", "2", "3", "4", "5">>
URL_ABS == <<"h", "t", "t", "p", "s", ":", "/", "/">> \o ARXIV_ORG \o <<"/", "a", "b", "s", "/">>
URL_PDF == <<"h", "t", "t", "p", "s", ":", "/", "/">> \o ARXIV_ORG \o <<"/", "p", "d", "f", "/">>
DATED == <<"2", "0", "2", "4", ".", "0", "1", ".", "0", "2", ".">>

TEN_DIGIT_ID == <<"2", "4", "0", "1", "1", "2", "3", "4", "5", "6">>

\* the forms an arXiv identifier is given in: bare or as the last component
\* of a URL or path, dotted or compact, with or without a version and ".pdf"
ArxivForms ==
    {prefix \o body \o version \o ext :
        prefix \in {<<>>, URL_ABS, URL_PDF, ARXIV_ORG \o <<"/", "a", "b", "s", "/">>,
                    <<"a", "b", "s", "/">>,
                    <<"A", "R", "X", "I", "V", ".", "O", "R", "G", "/">>},
        body \in {DOTTED_ID, COMPACT_ID, TEN_DIGIT_ID, paper_id_with_dot(TEN_DIGIT_ID)},
        version \in {<<>>, <<"v", "2">>},
        ext \in {<<>>, DOT_PDF}}

\* the forms a DOI is given in: with the prefix, inside a URL, as the bare
\* suffix, with a well-formed dated suffix or another one
DoiForms ==
    {prefix \o suffix \o rest :
        prefix \in {<<>>, DOI_PREFIX, <<"x", "/">> \o DOI_PREFIX, <<"x", "/">>},
        suffix \in {DATED \o <<"1", "2", "3">>, DATED, <<"1", "2", "3">>, <<>>},
        rest \in {<<>>, <<"v", "1">>, <<"/", "x">>, <<"?">> \o DOI_PREFIX}}

InitId ==
    /\ message = <<>> /\ max_length = 1 /\ chunks = <<>> /\ cuts = <<>> /\ cpc = "idle"
    /\ AggIdle
    /\ ExtIdle
    /\ \/ id_op = "arxiv" /\ id_in \in ArxivForms
       \/ id_op = "doi" /\ id_in \in DoiForms
    /\ id_out = <<>> /\ id_back = <<>>

\* /abstract normalises the identifier it is given
NormalizeArxiv ==
    /\ id_op = "arxiv"
    /\ id_out' = ArxivNormalize(id_in)
    /\ id_op' = "arxiv_once"
    /\ UNCHANGED <<id_in, id_back, chunk_vars, agg_vars, ext_vars>>

\* the normalised identifier is normalised again
NormalizeArxivAgain ==
    /\ id_op = "arxiv_once"
    /\ id_back' = ArxivNormalize(id_out)
    /\ id_op' = "arxiv_twice"
    /\ UNCHANGED <<id_in, id_out, chunk_vars, agg_vars, ext_vars>>

\* medarxiv_api.fetch_paper_by_id normalises the identifier it is given
NormalizeDoi ==
    /\ id_op = "doi"
    /\ id_out' = DoiNormalize(id_in)
    /\ id_op' = "doi_once"
    /\ UNCHANGED <<id_in, id_back, chunk_vars, agg_vars, ext_vars>>

NormalizeDoiAgain ==
    /\ id_op = "doi_once"
    /\ id_back' = DoiNormalize(id_out)
    /\ id_op' = "doi_twice"
    /\ UNCHANGED <<id_in, id_out, chunk_vars, agg_vars, ext_vars>>

NextId == NormalizeArxiv \/ NormalizeArxivAgain \/ NormalizeDoi \/ NormalizeDoiAgain

SpecId == InitId /\ [][NextId]_vars

\* C9: normalisation is idempotent in both namespaces, and an identifier that
\* is canonical already ("2401.12345", a DOI starting with "10.1101/") is
\* returned unchanged.
C9_Idempotent ==
    /\ id_op \in {"arxiv_twice", "doi_twice"} => id_back = id_out
    /\ (id_op = "arxiv_once" /\ id_in = DOTTED_ID) => id_out = id_in
    /\ (id_op = "doi_once" /\ StartsWith(id_in, DOI_PREFIX)) => id_out = id_in

(***************************************************************************)
(* paper_id_with_dot and paper_id_without_dot, one after the other.        *)
(***************************************************************************)
MaxTailDigits == 6   \* a dotted identifier has 5..MaxTailDigits digits after the dot

IdDigits == {"0", "7"}

\* NNNN.NNNNN: four digits, a dot, five or more digits, an optional version
DottedIds ==
    {head \o <<".">> \o tail \o version :
        head \in [1..4 -> IdDigits],
        tail \in UNION {[1..n -> IdDigits] : n \in 5..MaxTailDigits},
        version \in {<<>>, <<"v", "2">>}}

\* the compact identifiers: 9 or 10 digits and no dot
CompactIds == [1..9 -> IdDigits] \cup [1..10 -> IdDigits]

InitRoundTrip ==
    /\ message = <<>> /\ max_length = 1 /\ chunks = <<>> /\ cuts = <<>> /\ cpc = "idle"
    /\ AggIdle
    /\ ExtIdle
    /\ \/ id_op = "compact" /\ id_in \in CompactIds
       \/ id_op = "dotted" /\ id_in \in DottedIds
    /\ id_out = <<>> /\ id_back = <<>>

\* /abstract<id>: the dot is put back into a compact identifier
WithDot ==
    /\ id_op = "compact"
    /\ id_out' = paper_id_with_dot(id_in)
    /\ id_op' = "compact_dotted"
    /\ UNCHANGED <<id_in, id_back, chunk_vars, agg_vars, ext_vars>>

WithoutDotBack ==
    /\ id_op = "compact_dotted"
    /\ id_back' = paper_id_without_dot(id_out)
    /\ id_op' = "compact_back"
    /\ UNCHANGED <<id_in, id_out, chunk_vars, agg_vars, ext_vars>>

\* a list item takes the dot out of the identifier of its paper
WithoutDot ==
    /\ id_op \in {"dotted", "compact"}
    /\ id_out' = paper_id_without_dot(id_in)
    /\ id_op' = IF id_op = "dotted" THEN "dotted_stripped" ELSE "compact_stripped"
    /\ UNCHANGED <<id_in, id_back, chunk_vars, agg_vars, ext_vars>>

WithDotBack ==
    /\ id_op = "dotted_stripped"
    /\ id_back' = paper_id_with_dot(id_out)
    /\ id_op' = "dotted_back"
    /\ UNCHANGED <<id_in, id_out, chunk_vars, agg_vars, ext_vars>>

NextRoundTrip == WithDot \/ WithoutDotBack \/ WithoutDot \/ WithDotBack

SpecRoundTrip == InitRoundTrip /\ [][NextRoundTrip]_vars

NotDot(c) == c # "."

\* C10: paper_id_without_dot undoes paper_id_with_dot on a compact
\* identifier of 9 or 10 digits, paper_id_with_dot undoes
\* paper_id_without_dot on a dotted NNNN.NNNNN identifier, and
\* paper_id_without_dot takes the dot out of a dotted identifier and leaves
\* an identifier without a dot as it is.
C10_RoundTrip ==
    /\ id_op = "compact_dotted" =>
          id_out = Sub(id_in, 1, 4) \o <<".">> \o Sub(id_in, 5, Len(id_in))
    /\ id_op = "compact_back" => id_back = id_in
    /\ id_op = "dotted_back" => id_back = id_in
    /\ id_op = "dotted_stripped" =>
          id_out = SelectSeq(id_in, NotDot) /\ Len(id_out) = Len(id_in) - 1
    /\ id_op = "compact_stripped" => id_out = id_in

\* a dotted identifier with a version went through paper_id_without_dot and
\* back through paper_id_with_dot
C10_Witness ==
    /\ id_op = "dotted_back"
    /\ Last(id_in) = "2" /\ Len(id_in) = 13
    /\ id_out # id_in
    /\ id_back = id_in

(***************************************************************************)
(* The forms in which one paper is requested from /abstract.               *)
(***************************************************************************)
\* the paper 2401.12345: its bare dotted and compact identifier, its
\* abstract-page URL and its PDF URL, the last component dotted or compact
RequestForms ==
    {prefix \o body : prefix \in {<<>>, URL_ABS, URL_PDF}, body \in {DOTTED_ID, COMPACT_ID}}
    \cup {URL_PDF \o body \o DOT_PDF : body \in {DOTTED_ID, COMPACT_ID}}

\* C11: whatever form the paper 2401.12345 is requested in, the /abstract
\* path (paper_id_with_dot, then the clean-up of fetch_paper_by_id) sends
\* the canonical dotted identifier "2401.12345" to the provider.
C11_SameCanonical ==
    (id_op = "arxiv_once" /\ id_in \in RequestForms) => id_out = DOTTED_ID

(***************************************************************************)
(* The two /abstract handlers up to the provider lookup.  id_in is the     *)
(* text of the message after "/abstract", id_out the paper_id of the       *)
(* handler, id_back the identifier the lookup sends to the provider.       *)
(***************************************************************************)
MaxRestLen == 4      \* longest text after "/abstract"

IsSpace(c) == c = SP \/ c = NL

\* s.strip()
Strip(s) ==
    LET inked == {k \in 1..Len(s) : ~IsSpace(s[k])}
    IN IF inked = {} THEN <<>> ELSE Sub(s, Min(inked), Max(inked))

\* context.args[0]: the first word of the text after the command, <<>> when
\* context.args is empty
FirstArg(rest) ==
    LET t == Strip(rest)
        gaps == {k \in 1..Len(t) : IsSpace(t[k])}
    IN IF gaps = {} THEN t ELSE Sub(t, 1, Min(gaps) - 1)

RestAlphabet == {SP, "2", "."}

InitAbstract ==
    /\ message = <<>> /\ max_length = 1 /\ chunks = <<>> /\ cuts = <<>> /\ cpc = "idle"
    /\ AggIdle
    /\ ExtIdle
    /\ id_op \in {"args", "no_space"}
    /\ id_in \in SeqsUpTo(RestAlphabet, MaxRestLen)
    /\ id_out = <<>> /\ id_back = <<>>

\* paper_abstract: "/abstract <id>"
PaperAbstract ==
    /\ id_op = "args"
    /\ IF FirstArg(id_in) = <<>>
       THEN /\ id_op' = "args_prompt"
            /\ UNCHANGED <<id_out, id_back>>
       ELSE /\ id_out' = paper_id_with_dot(FirstArg(id_in))
            /\ id_back' = ArxivCleanup(id_out')
            /\ id_op' = "args_lookup"
    /\ UNCHANGED <<id_in, chunk_vars, agg_vars, ext_vars>>

\* abstract_no_space: "/abstract<id>"
AbstractNoSpace ==
    /\ id_op = "no_space"
    /\ LET paper_id == paper_id_with_dot(Strip(id_in))
       IN IF paper_id = <<>>
          THEN /\ id_op' = "no_space_prompt"
               /\ UNCHANGED <<id_out, id_back>>
          ELSE /\ id_out' = paper_id
               /\ id_back' = ArxivCleanup(paper_id)
               /\ id_op' = "no_space_lookup"
    /\ UNCHANGED <<id_in, chunk_vars, agg_vars, ext_vars>>

NextAbstract == PaperAbstract \/ AbstractNoSpace

SpecAbstract == InitAbstract /\ [][NextAbstract]_vars

\* C12: an identifier that is empty after stripping gets the "Please provide
\* an arXiv paper ID" prompt and no provider lookup, and the normalisation
\* does not make a non-empty identifier of it.
C12_EmptyIdentifier ==
    (id_op \in {"args_prompt", "args_lookup", "no_space_prompt", "no_space_lookup"}
        /\ Strip(id_in) = <<>>)
    => /\ id_op \in {"args_prompt", "no_space_prompt"}
       /\ id_out = <<>>
       /\ id_back = <<>>

(***************************************************************************)
(* medarxiv_api: the pagination of fetch_medarxiv_papers and the lookup of *)
(* fetch_paper_by_id.  A record is the number the provider served it as:   *)
(* the first record of the first page is 1.  Each request is logged with   *)
(* its cursor and with what the provider answered:                         *)
(*   "ok"                   a collection of size objects, size > 0         *)
(*   "empty"                an empty or absent collection                  *)
(*   "network_error"        requests.get raises a RequestException         *)
(*   "http_error"           a non-success status                           *)
(*   "not_json"             the body is not JSON                           *)
(*   "not_object"           the JSON value is not an object                *)
(*   "collection_null"      the collection is null, 0, "" or {}            *)
(*   "collection_not_list"  the collection is another value that is not a  *)
(*                          list of objects                                *)
(***************************************************************************)
CursorStep == 100    \* cursor += 100
FullPage == 100      \* len(collection) < 100
MaxLimit == 201      \* largest max_results

PageSizes == {1, FullPage - 1, FullPage, FullPage + 1}
Failures == {"network_error", "http_error"}
Malformed == {"not_json", "not_object", "collection_null", "collection_not_list"}

\* the number of records the provider served in the requests reqs
RECURSIVE Served(_)
Served(reqs) ==
    IF reqs = <<>> THEN 0
    ELSE Served(Sub(reqs, 1, Len(reqs) - 1))
         + (IF Last(reqs).kind = "ok" THEN Last(reqs).size ELSE 0)

\* the cursor stays where it is
NextCursor_Same(c) == c

\* cursor += 100
NextCursor(c) == c + CursorStep

\* all_results[:max_results]
Capped(rs, n) == Sub(rs, 1, n)

Request(kind, size) == [cursor |-> cursor, kind |-> kind, size |-> size]

\* the guard of the while loop
InLoop == mpc = "loop" /\ Len(all_results) < max_results

InitMed ==
    /\ message = <<>> /\ max_length = 1 /\ chunks = <<>> /\ cuts = <<>> /\ cpc = "idle"
    /\ AggIdle /\ IdIdle /\ DlvIdle /\ FmtIdle /\ BotIdle
    /\ \/ mpc = "loop" /\ max_results \in 0..MaxLimit
       \/ mpc = "lookup" /\ max_results = 0
    /\ all_results = <<>> /\ cursor = 0 /\ requests = <<>> /\ returned = <<>>

\* a page with a collection of n objects: they are appended until
\* max_results are collected, the cursor moves on, a short page ends the loop
PageOk ==
    /\ InLoop
    /\ \E n \in PageSizes :
          LET taken == Min({n, max_results - Len(all_results)})
              grown == all_results \o [j \in 1..taken |-> Served(requests) + j]
          IN /\ all_results' = grown
             /\ cursor' = NextCursor(cursor)
             /\ requests' = Append(requests, Request("ok", n))
             /\ IF n < FullPage
                THEN mpc' = "returned" /\ returned' = Capped(grown, max_results)
                ELSE UNCHANGED <<mpc, returned>>
    /\ UNCHANGED <<max_results, chunk_vars, agg_vars, id_vars, dlv_vars, fmt_vars, bot_vars>>

\* "if not collection: break"
PageEmpty ==
    /\ InLoop
    /\ \E kind \in {"empty", "collection_null"} :
          requests' = Append(requests, Request(kind, 0))
    /\ mpc' = "returned"
    /\ returned' = Capped(all_results, max_results)
    /\ UNCHANGED <<max_results, all_results, cursor,
                   chunk_vars, agg_vars, id_vars, dlv_vars, fmt_vars, bot_vars>>

\* the except branch lets the page failure end the call with an exception
PageFails_Propagates ==
    /\ InLoop
    /\ \E kind \in Failures : requests' = Append(requests, Request(kind, 0))
    /\ mpc' = "raised"
    /\ UNCHANGED <<max_results, all_results, cursor, returned,
                   chunk_vars, agg_vars, id_vars, dlv_vars, fmt_vars, bot_vars>>

\* requests.get or raise_for_status raises a RequestException: "break"
PageFails ==
    /\ InLoop
    /\ \E kind \in Failures : requests' = Append(requests, Request(kind, 0))
    /\ mpc' = "returned"
    /\ returned' = Capped(all_results, max_results)
    /\ UNCHANGED <<max_results, all_results, cursor,
                   chunk_vars, agg_vars, id_vars, dlv_vars, fmt_vars, bot_vars>>

\* response.json() raises: a requests.exceptions.JSONDecodeError, which is a
\* RequestException, or (requests before 2.27) a ValueError, which is not
PageNotJson ==
    /\ InLoop
    /\ requests' = Append(requests, Request("not_json", 0))
    /\ \/ mpc' = "returned" /\ returned' = Capped(all_results, max_results)
       \/ mpc' = "raised" /\ UNCHANGED returned
    /\ UNCHANGED <<max_results, all_results, cursor,
                   chunk_vars, agg_vars, id_vars, dlv_vars, fmt_vars, bot_vars>>

\* data.get or paper.get raises AttributeError, or the for loop TypeError:
\* "except requests.exceptions.RequestException" does not catch them
PageMalformed ==
    /\ InLoop
    /\ \E kind \in {"not_object", "collection_not_list"} :
          requests' = Append(requests, Request(kind, 0))
    /\ mpc' = "raised"
    /\ UNCHANGED <<max_results, all_results, cursor, returned,
                   chunk_vars, agg_vars, id_vars, dlv_vars, fmt_vars, bot_vars>>

\* the while condition is false: return all_results[:max_results]
LoopExit ==
    /\ mpc = "loop"
    /\ Len(all_results) >= max_results
    /\ mpc' = "returned"
    /\ returned' = Capped(all_results, max_results)
    /\ UNCHANGED <<max_results, all_results, cursor, requests,
                   chunk_vars, agg_vars, id_vars, dlv_vars, fmt_vars, bot_vars>>

\* fetch_paper_by_id: the first object of the collection, or None (<<>>) for
\* every other answer; "except Exception" catches what the payload raises
LookupById ==
    /\ mpc = "lookup"
    /\ \E kind \in {"ok", "empty"} \cup Failures \cup Malformed :
          /\ requests' = <<Request(kind, IF kind = "ok" THEN 1 ELSE 0)>>
          /\ returned' = IF kind = "ok" THEN <<1>> ELSE <<>>
    /\ mpc' = "lookup_returned"
    /\ UNCHANGED <<max_results, all_results, cursor,
                   chunk_vars, agg_vars, id_vars, dlv_vars, fmt_vars, bot_vars>>

NextMed ==
    PageOk \/ PageEmpty \/ PageFails \/ PageNotJson \/ PageMalformed \/ LoopExit
    \/ LookupById

SpecMed == InitMed /\ [][NextMed]_vars

\* the call runs to its end
SpecMedLive == SpecMed /\ WF_vars(NextMed)

\* C13: a payload of unexpected shape never ends fetch_medarxiv_papers or
\* fetch_paper_by_id with an exception: the page or lookup counts as empty,
\* the records collected so far (none for a lookup) are returned.
C13_MalformedIsEmpty ==
    (requests # <<>> /\ Last(requests).kind \in Malformed)
    => /\ mpc \in {"returned", "lookup_returned"}
       /\ returned = Capped(all_results, max_results)

\* the call has ended
MedEnded == mpc \in {"returned", "raised", "lookup_returned"}

\* the pages are requested at the cursors 0, 100, 200, ...; every request
\* but the last one got a full page that left fewer than max_results records
\* collected; what is returned are the first records the provider served, at
\* most max_results of them
PaginationSafe ==
    mpc \in {"loop", "returned", "raised"} =>
        /\ \A k \in 1..Len(requests) : requests[k].cursor = (k - 1) * 100
        /\ \A k \in 1..(Len(requests) - 1) :
              /\ requests[k].kind = "ok"
              /\ requests[k].size >= 100
              /\ Served(Sub(requests, 1, k)) < max_results
        /\ mpc = "returned" =>
              /\ Len(returned) <= max_results
              /\ returned = [j \in 1..Len(returned) |-> j]

C20_PageFailure ==
    \A k \in 1..Len(requests) :
        requests[k].kind \in Failures =>
            /\ k = Len(requests)
            /\ mpc \in {"returned", "lookup_returned"}
            /\ returned = [j \in 1..Min({Served(Sub(requests, 1, k - 1)), max_results}) |-> j]

\* the second page failed and the records of the first page are returned
C20_Witness ==
    /\ mpc = "returned"
    /\ Len(requests) = 2
    /\ requests[2].kind = "http_error"
    /\ Len(returned) = FullPage

(***************************************************************************)
(* send_daily_papers: the delivery of the topic messages.  A topic message *)
(* of at most 4096 characters is sent whole, a longer one chunk by chunk.  *)
(* A recipient is its index in config['authorized_users'].  dpc is the     *)
(* position of the three loops: topic t, recipient u, chunk c.             *)
(***************************************************************************)
MaxRecipients == 2   \* longest list of recipients
MaxTopics == 2       \* most topic messages
MaxChunks == 2       \* most chunks of a topic message

\* sends to the recipient succeed, the HTML sends raise, or all sends raise
SendModes == {"ok", "html_fails", "all_fail"}

At(t, u, c) == [at |-> "send", t |-> t, u |-> u, c |-> c]
Done == [at |-> "done", t |-> 0, u |-> 0, c |-> 0]

\* the position of the first send
FirstSend ==
    IF authorized_users = <<>> \/ topic_messages = <<>> THEN Done ELSE At(1, 1, 1)

\* the next recipient, or the first recipient of the next topic message
AfterUser(p) ==
    IF p.u < Len(authorized_users) THEN At(p.t, p.u + 1, 1)
    ELSE IF p.t < Len(topic_messages) THEN At(p.t + 1, 1, 1)
    ELSE Done

\* the next chunk, or the next recipient after the last chunk
AfterChunk(p) ==
    IF p.c < topic_messages[p.t].n THEN At(p.t, p.u, p.c + 1) ELSE AfterUser(p)

\* the exception of a failed send ends send_daily_papers
WholeFailed_Aborts(p) == Done

\* "except Exception as e" of the recipient loop: on to the next recipient
WholeFailed(p) == AfterUser(p)

Sent(p, parse_mode, ok) ==
    [chat_id |-> p.u, topic |-> p.t, chunk |-> p.c, parse_mode |-> parse_mode, ok |-> ok]

InitDeliver ==
    /\ message = <<>> /\ max_length = 1 /\ chunks = <<>> /\ cuts = <<>> /\ cpc = "idle"
    /\ AggIdle /\ IdIdle /\ MedIdle /\ FmtIdle /\ BotIdle
    /\ \E n \in 0..MaxRecipients :
          /\ authorized_users = [k \in 1..n |-> k]
          /\ send_fails \in [1..n -> SendModes]
    /\ \E m \in 1..MaxTopics :
          topic_messages \in [1..m -> {[chunked |-> FALSE, n |-> 1]}
                                      \cup [chunked : {TRUE}, n : 1..MaxChunks]]
    /\ sends = <<>>
    /\ dpc = [at |-> "start", t |-> 0, u |-> 0, c |-> 0]

\* the loops are entered
BeginDeliver ==
    /\ dpc.at = "start"
    /\ dpc' = FirstSend
    /\ UNCHANGED <<authorized_users, send_fails, topic_messages, sends,
                   chunk_vars, agg_vars, id_vars, med_vars, fmt_vars, bot_vars>>

\* len(message) <= 4096: one send_message in the try of the recipient loop
SendWhole ==
    /\ dpc.at = "send"
    /\ ~topic_messages[dpc.t].chunked
    /\ LET ok == send_fails[dpc.u] = "ok"
       IN /\ sends' = Append(sends, Sent(dpc, "HTML", ok))
          /\ dpc' = IF ok THEN AfterUser(dpc) ELSE WholeFailed(dpc)
    /\ UNCHANGED <<authorized_users, send_fails, topic_messages,
                   chunk_vars, agg_vars, id_vars, med_vars, fmt_vars, bot_vars>>

\* one chunk: send_message, after a failure the plain-text send_message,
\* whose failure is logged; then the next chunk
SendChunk ==
    /\ dpc.at = "send"
    /\ topic_messages[dpc.t].chunked
    /\ sends' = IF send_fails[dpc.u] = "ok"
                THEN Append(sends, Sent(dpc, "HTML", TRUE))
                ELSE sends \o <<Sent(dpc, "HTML", FALSE),
                                Sent(dpc, "None", send_fails[dpc.u] = "html_fails")>>
    /\ dpc' = AfterChunk(dpc)
    /\ UNCHANGED <<authorized_users, send_fails, topic_messages,
                   chunk_vars, agg_vars, id_vars, med_vars, fmt_vars, bot_vars>>

NextDeliver == BeginDeliver \/ SendWhole \/ SendChunk

SpecDeliver == InitDeliver /\ [][NextDeliver]_vars

\* the sends that reached recipient u, in order
Received(u) == SelectSeq(sends, LAMBDA e : e.chat_id = u /\ e.ok)

\* send e is for an earlier chunk than send f
Earlier(e, f) == e.topic < f.topic \/ (e.topic = f.topic /\ e.chunk < f.chunk)

\* C14: when send_daily_papers has ended, every recipient whose sends do not
\* raise has been sent every chunk of every topic message, once and in
\* order, and for every recipient every chunk of every topic message was
\* attempted, whichever recipients' sends raised.
C14_DeliveryIsolated ==
    dpc.at = "done" =>
        \A u \in 1..Len(authorized_users) :
            /\ \A t \in 1..Len(topic_messages) :
                  \A c \in 1..topic_messages[t].n :
                      \E i \in 1..Len(sends) :
                          /\ sends[i].chat_id = u
                          /\ sends[i].topic = t
                          /\ sends[i].chunk = c
            /\ send_fails[u] = "ok" =>
                  /\ \A t \in 1..Len(topic_messages) :
                        \A c \in 1..topic_messages[t].n :
                            \E i \in 1..Len(Received(u)) :
                                /\ Received(u)[i].topic = t
                                /\ Received(u)[i].chunk = c
                                /\ Received(u)[i].parse_mode = "HTML"
                  /\ \A i, j \in 1..Len(Received(u)) :
                        i < j => Earlier(Received(u)[i], Received(u)[j])

\* the first recipient's sends all raise, the second recipient got both
\* chunks of the second topic message
C14_Witness ==
    /\ dpc.at = "done"
    /\ Len(authorized_users) = 2
    /\ send_fails = <<"all_fail", "ok">>
    /\ Len(topic_messages) = 2
    /\ topic_messages[2] = [chunked |-> TRUE, n |-> 2]
    /\ Len(Received(2)) = topic_messages[1].n + 2

(***************************************************************************)
(* The renderers: helpers.format_papers, the topic list of today_command   *)
(* and send_daily_papers, and the message of paper_abstract.               *)
(***************************************************************************)
T_FormatHead ==
    <<BOOKS, SP, "<", "b", ">", "P", "a", "p", "e", "r", "s", SP, "T", "o", "d", "a", "y",
      "<", "/", "b", ">", SP, BOOKS, NL, NL>>
T_FormatUse ==
    <<NL, SP, SP, SP, "/", "a", "b", "s", "t", "r", "a", "c", "t">>

\* the item of format_papers for papers[i], i counted from 0
FormatItem(i, paper) ==
    Str(i) \o T_ItemOpen \o escape_html(paper.title) \o T_ItemClose
    \o T_ItemAuthors \o ListAuthors(paper)
    \o T_FormatUse \o paper_id_without_dot(Last(Split(paper.id, <<"/">>)))
    \o NLNL

\* for i in range(len(papers)), from i on
RECURSIVE FormatItems(_, _)
FormatItems(ps, i) ==
    IF i >= Len(ps) THEN <<>>
    ELSE FormatItem(i, ps[i + 1]) \o FormatItems(ps, i + 1)

format_papers(ps) == T_FormatHead \o FormatItems(ps, 0)

\* titles: plain, with markup characters, with an entity, empty
ListTexts ==
    << <<"t">>, <<"a", "&", "b">>, <<"<", "t", ">">>, <<"&", "l", "t", ";">>, <<>> >>

\* the k-th paper of a list: the titles from ListTexts[s + 1] on, the
\* numbers of authors from a + 1 on
PaperAt(k, s, a) ==
    [title |-> ListTexts[((s + k - 1) % Len(ListTexts)) + 1],
     authors |-> AuthorList((a + k) % (MaxAuthors + 1)),
     id |-> ArxivEntryId,
     abstract |-> <<"a", SP, "<", "&", ">", SP, "b">>,
     categories |-> <<CS_CV, CS_AI>>,
     published |-> <<"2", "0", "2", "4", "-", "0", "1", "-", "0", "2">>,
     link |-> <<"h", "t", "t", "p", ":", "/", "/", "a", "/", "p">>]

InitList ==
    /\ message = <<>> /\ max_length = 1 /\ chunks = <<>> /\ cuts = <<>> /\ cpc = "idle"
    /\ AggIdle /\ IdIdle /\ MedIdle /\ DlvIdle /\ BotIdle
    /\ \E n \in 0..MaxPapers, s \in 1..Len(ListTexts), a \in 0..MaxAuthors :
          paper_list = [k \in 1..n |-> PaperAt(k, s, a)]
    /\ rendered = <<>>
    /\ fpc = "input"

\* helpers.format_papers(papers)
FormatPapers ==
    /\ fpc = "input"
    /\ rendered' = format_papers(paper_list)
    /\ fpc' = "format_papers"
    /\ UNCHANGED <<paper_list, chunk_vars, agg_vars, id_vars, med_vars, dlv_vars, bot_vars>>

\* the message today_command and send_daily_papers build for a topic
TopicList ==
    /\ fpc = "input"
    /\ rendered' = ListMessage(CS_CV, paper_list)
    /\ fpc' \in {"today_command", "send_daily_papers"}
    /\ UNCHANGED <<paper_list, chunk_vars, agg_vars, id_vars, med_vars, dlv_vars, bot_vars>>

\* the message paper_abstract and abstract_no_space build for the paper found
AbstractText ==
    /\ fpc = "input"
    /\ Len(paper_list) = 1
    /\ rendered' = AbstractMessage(paper_list[1])
    /\ fpc' = "paper_abstract"
    /\ UNCHANGED <<paper_list, chunk_vars, agg_vars, id_vars, med_vars, dlv_vars, bot_vars>>

NextList == FormatPapers \/ TopicList \/ AbstractText

SpecList == InitList /\ [][NextList]_vars

ListRenderers == {"format_papers", "today_command", "send_daily_papers"}

\* text with each '&', '<' and '>' replaced by its entity, character by
\* character
EscapedOnce(text) ==
    Join([k \in 1..Len(text) |->
             CASE text[k] = "&" -> T_Amp
               [] text[k] = "<" -> T_Lt
               [] text[k] = ">" -> T_Gt
               [] OTHER -> <<text[k]>>], <<>>)

\* the paragraphs of the rendered message: the heading, one per item, and
\* the empty one after the last "\n\n"
Paragraphs == Split(rendered, NLNL)

\* C15: a renderer that lists papers emits one item per paper, in the order
\* of the papers, and numbers the items 1, 2, ..., n.
C15_Numbering ==
    fpc \in ListRenderers =>
        /\ Len(Paragraphs) = Len(paper_list) + 2
        /\ \A k \in 1..Len(paper_list) :
              StartsWith(Paragraphs[k + 1],
                         Str(k) \o T_ItemOpen \o EscapedOnce(paper_list[k].title) \o T_ItemClose)

\* the number of places of s that hold the character c
Count(s, c) == Cardinality({k \in 1..Len(s) : s[k] = c})

\* s.endswith(pat)
EndsWith(s, pat) == Len(pat) <= Len(s) /\ MatchAt(s, Len(s) - Len(pat) + 1, pat)

\* e holds no '<' and no '>', and each '&' of e starts an entity
WellEscaped(e) ==
    /\ Count(e, "<") = 0 /\ Count(e, ">") = 0
    /\ \A k \in 1..Len(e) :
          e[k] = "&" => MatchAt(e, k, T_Amp) \/ MatchAt(e, k, T_Lt) \/ MatchAt(e, k, T_Gt)

\* the author text of a list item: the first three names at most, in the
\* order of the paper, and " et al." after them when there are more
AuthorsText(paper) ==
    LET n == Len(paper.authors)
    IN Join([k \in 1..Min({n, 3}) |-> paper.authors[k]], T_CommaSpace)
       \o (IF n > 3 THEN T_EtAl ELSE <<>>)

\* the user-controlled texts of a paper
FieldTexts(paper) ==
    {paper.title, paper.abstract, AuthorsText(paper)}
    \cup {paper.authors[k] : k \in 1..Len(paper.authors)}

\* C16: escape_html replaces each '&', '<' and '>' by its entity once, so
\* that its result holds no '<' or '>' and each '&' of it starts one of the
\* three entities; a rendered message holds each title, author text and
\* abstract escaped once, and its markup is that of the template.
C16_EscapedOnce ==
    fpc \in ListRenderers \cup {"paper_abstract"} =>
        /\ \A k \in 1..Len(paper_list) : \A text \in FieldTexts(paper_list[k]) :
              /\ escape_html(text) = EscapedOnce(text)
              /\ WellEscaped(escape_html(text))
        /\ fpc \in ListRenderers =>
              /\ \A k \in 1..Len(paper_list) :
                    Contains(rendered,
                             T_ItemOpen \o EscapedOnce(paper_list[k].title) \o T_ItemClose
                             \o T_ItemAuthors \o EscapedOnce(AuthorsText(paper_list[k]))
                             \o <<NL>>)
              /\ Count(rendered, "<") = 2 + 2 * Len(paper_list)
              /\ Count(rendered, ">") = 2 + 2 * Len(paper_list)
        /\ fpc = "paper_abstract" =>
              /\ StartsWith(rendered,
                            T_TitleOpen \o EscapedOnce(paper_list[1].title) \o T_TitleClose
                            \o T_Authors
                            \o Join([k \in 1..Len(paper_list[1].authors) |->
                                        EscapedOnce(paper_list[1].authors[k])], T_CommaSpace)
                            \o T_Published)
              /\ EndsWith(rendered, T_Abstract \o EscapedOnce(paper_list[1].abstract))
              /\ Count(rendered, "<") = 12
              /\ Count(rendered, ">") = 12

\* a topic list was rendered for a paper whose title is the text "&lt;"
C16_Witness ==
    /\ fpc = "send_daily_papers"
    /\ Len(paper_list) = 2
    /\ paper_list[1].title = T_Lt
    /\ Contains(rendered, T_Amp \o <<"l", "t", ";">>)

\* C17: the authors line of a list item shows the first min(n, 3) of the n
\* authors of its paper in their order, and ends with " et al." exactly
\* when n > 3.
C17_EtAl ==
    fpc \in ListRenderers =>
        \A k \in 1..Len(paper_list) :
            LET lines == Split(Paragraphs[k + 1], <<NL>>)
            IN /\ Len(lines) = 3
               /\ lines[2] = T_ItemAuthors \o EscapedOnce(AuthorsText(paper_list[k]))
               /\ EndsWith(lines[2], T_EtAl) <=> Len(paper_list[k].authors) > 3

\* format_papers rendered a paper of three authors and a paper of more
C17_Witness ==
    /\ fpc = "format_papers"
    /\ Len(paper_list) = 2
    /\ Len(paper_list[1].authors) = 3
    /\ Len(paper_list[2].authors) > 3
    /\ Len(Split(rendered, T_EtAl)) = 2

(***************************************************************************)
(* fetch_arxiv_papers: the filter on the published timestamp.  A datetime  *)
(* is a number of ticks, TicksPerDay ticks to the day; the first tick of a *)
(* day is its midnight.  fetched is what client.results yields.            *)
(***************************************************************************)
TicksPerDay == 2     \* times of day the model tells apart
MaxYielded == 2      \* most papers the provider yields

FetchDays == 0..2

DateTimes == {d * TicksPerDay + tick : d \in FetchDays, tick \in 0..(TicksPerDay - 1)}

\* datetime.strptime(day, '%Y-%m-%d'): the midnight of the day
Midnight(d) == d * TicksPerDay

\* start_date <= published_date.replace(tzinfo=None) <= end_date
KeepsPaper(paper, start, end) == start <= paper.published /\ paper.published <= end

RECURSIVE FilterByDate(_, _, _)
FilterByDate(yielded, start, end) ==
    IF yielded = <<>> THEN <<>>
    ELSE (IF KeepsPaper(yielded[1], start, end) THEN <<yielded[1]>> ELSE <<>>)
         \o FilterByDate(Tail(yielded), start, end)

\* the call: by a caller that passes datetimes, as the signature says, or by
\* send_daily_papers (today, today) or today_command (yesterday, today),
\* which pass '%Y-%m-%d' strings
InitFetch ==
    /\ message = <<>> /\ max_length = 1 /\ chunks = <<>> /\ cuts = <<>> /\ cpc = "idle"
    /\ IdIdle /\ ExtIdle
    /\ topics = <<CS_CV>> /\ results = <<>> /\ idx = 0
    /\ all_papers = <<>> /\ papers_by_topic = <<>> /\ fetch_error = "none"
    /\ \E n \in 0..MaxYielded : fetched \in [1..n -> [published : DateTimes]]
    /\ \/ /\ handler = "caller"
          /\ start_date \in DateTimes /\ end_date \in DateTimes
          /\ start_date <= end_date
       \/ /\ handler = "send_daily_papers"
          /\ \E d \in FetchDays : start_date = Midnight(d) /\ end_date = Midnight(d)
       \/ /\ handler = "today_command"
          /\ \E d \in FetchDays \ {0} :
                start_date = Midnight(d - 1) /\ end_date = Midnight(d)
    /\ apc = "fetch_call"

\* fetch_arxiv_papers given datetimes: the papers the comparison keeps
FetchFilters ==
    /\ apc = "fetch_call"
    /\ handler = "caller"
    /\ results' = FilterByDate(fetched, start_date, end_date)
    /\ apc' = "fetch_returned"
    /\ UNCHANGED <<handler, topics, start_date, end_date, fetched, idx, all_papers,
                   papers_by_topic, fetch_error, chunk_vars, id_vars, ext_vars>>

\* fetch_arxiv_papers given strings: the comparison of a str with the
\* datetime of the first paper raises TypeError; no paper, no comparison
FetchComparesStrings ==
    /\ apc = "fetch_call"
    /\ handler \in {"send_daily_papers", "today_command"}
    /\ IF fetched = <<>>
       THEN apc' = "fetch_returned" /\ UNCHANGED fetch_error
       ELSE apc' = "fetch_raised" /\ fetch_error' = "TypeError"
    /\ UNCHANGED <<handler, topics, start_date, end_date, fetched, results, idx,
                   all_papers, papers_by_topic, chunk_vars, id_vars, ext_vars>>

NextFetch == FetchFilters \/ FetchComparesStrings

SpecFetch == InitFetch /\ [][NextFetch]_vars

\* the calendar day of a datetime
DayOf(dt) == dt \div TicksPerDay

\* C18: fetch_arxiv_papers returns, in the order they were yielded, the
\* papers whose published day lies between the day of start_date and the
\* day of end_date, both included, whatever the time of day.
C18_InclusiveDays ==
    apc \in {"fetch_returned", "fetch_raised"} =>
        /\ apc = "fetch_returned"
        /\ results = SelectSeq(fetched,
                               LAMBDA p : /\ DayOf(start_date) <= DayOf(p.published)
                                          /\ DayOf(p.published) <= DayOf(end_date))

(***************************************************************************)
(* chunk_html_message with its default max_length, on one long paragraph,  *)
(* next to the short messages of SpecChunk.                                *)
(***************************************************************************)
DefaultMaxLength == 4000   \* max_length=4000
ScenarioOver == 60         \* the paragraph is up to this much longer than max_length

\* a paragraph of n characters, a space at place sp if sp > 0
LongParagraph(n, sp) == [k \in 1..n |-> IF k = sp THEN SP ELSE "x"]

InitScenario ==
    \/ InitChunk
    \/ /\ \E n \in (DefaultMaxLength + 1)..(DefaultMaxLength + ScenarioOver) :
          \E sp \in {0, DefaultMaxLength + 1, n} : message = LongParagraph(n, sp)
       /\ max_length = DefaultMaxLength
       /\ chunks = <<>> /\ cuts = <<>> /\ cpc = "call"
       /\ AggIdle /\ IdIdle
       /\ ExtIdle

SpecScenario == InitScenario /\ [][NextChunk]_vars

\* C21: a message that is one paragraph of length L, max_length < L <=
\* 2 * max_length, with no space among its first max_length characters,
\* comes back as two chunks: its first max_length characters and the
\* remaining L - max_length.
C21_HardCut ==
    (/\ cpc = "done"
     /\ ~Contains(message, NLNL)
     /\ max_length < Len(message) /\ Len(message) <= 2 * max_length
     /\ \A k \in 1..max_length : message[k] # SP)
    => /\ Len(chunks) = 2
       /\ chunks[1] = Sub(message, 1, max_length)
       /\ chunks[2] = Sub(message, max_length + 1, Len(message))
       /\ Len(chunks[1]) = max_length
       /\ Len(chunks[2]) = Len(message) - max_length

\* the paragraph of 4060 characters came back as chunks of 4000 and 60
C21_Witness ==
    /\ cpc = "done"
    /\ Len(message) = 4060 /\ max_length = 4000
    /\ \A k \in 1..Len(message) : message[k] = "x"
    /\ Len(chunks) = 2 /\ Len(chunks[1]) = 4000 /\ Len(chunks[2]) = 60

(***************************************************************************)
(* The command handlers of telegram_bot.py and their authorization checks. *)
(* config is the module's global dict; every handler that changes it       *)
(* saves it at once, so the file and the dict agree between commands.  A   *)
(* command is the id of its sender (an int), the handler the dispatcher    *)
(* picks and the text after the command name; context.args is that text    *)
(* split at white space.  authorized_users holds ints and strs: an element *)
(* is a record of its type and its value.                                  *)
(***************************************************************************)
MaxUsers == 2        \* the user ids are 1..MaxUsers
MaxListed == 3       \* longest list authorized_users

UserIds == 1..MaxUsers

PyInt(n) == [type |-> "int", val |-> n]
PyStr(s) == [type |-> "str", val |-> s]

\* a == b for two elements: an int and a str are never equal
PyEq(a, b) == a.type = b.type /\ a.val = b.val

\* x in list
PyIn(x, list) == \E k \in 1..Len(list) : PyEq(x, list[k])

\* int(s) returns for a run of decimal digits and raises ValueError for
\* the other words used here
IsNumeric(s) == s # <<>> /\ \A k \in 1..Len(s) : IsDigit(s[k])

DigitValue(c) == CHOOSE d \in 0..9 : Digit(d) = c

RECURSIVE ParseInt(_)
ParseInt(s) ==
    IF Len(s) = 1 THEN DigitValue(s[1])
    ELSE 10 * ParseInt(Sub(s, 1, Len(s) - 1)) + DigitValue(Last(s))

\* context.args: the words of the text after the command
Words(rest) == SelectSeq(Split(rest, <<SP>>), LAMBDA w : w # <<>>)

\* list.remove(x): the list without the first element equal to x
RemoveFirst(list, x) ==
    LET k == Min({j \in 1..Len(list) : list[j] = x})
    IN Sub(list, 1, k - 1) \o Sub(list, k + 1, Len(list))

\* datetime.strptime(time_str, '%H:%M') returns: one or two digits of an
\* hour up to 23, a colon, one or two digits of a minute up to 59
ValidTime(time_str) ==
    \E i \in 2..3 :
        /\ i < Len(time_str) /\ time_str[i] = ":"
        /\ LET h == Sub(time_str, 1, i - 1)
               m == Sub(time_str, i + 1, Len(time_str))
           IN /\ IsNumeric(h) /\ IsNumeric(m) /\ Len(m) <= 2
              /\ ParseInt(h) <= 23 /\ ParseInt(m) <= 59

NINE == <<"0", "9", ":", "0", "0">>
HALF_TEN == <<"1", "0", ":", "3", "0">>
NO_TIME == <<"2", "5", ":", "0", "0">>
UTC == <<"U", "T", "C">>
ROME == <<"E", "u", "r", "o", "p", "e", "/", "R", "o", "m", "e">>
NO_ZONE == <<"M", "a", "r", "s">>

\* pytz.timezone(timezone) returns for the names of the zone database
KnownTimezones == {UTC, ROME}

\* the texts after the command name
TopicTexts == {<<>>, CS_CV, CS_LG}
TimeTexts == {<<>>, HALF_TEN, NO_TIME, HALF_TEN \o <<SP>> \o NINE}
ZoneTexts == {<<>>, ROME, NO_ZONE}
IdTexts == {<<>>, <<"2", "1">>}
AttachedTexts == {<<"2", "1">>, <<".", SP>>}
UserTexts == {<<>>, <<"m", "e">>} \cup {Str(n) : n \in UserIds}

Update(user_id, command, rest) ==
    [user_id |-> user_id, command |-> command, rest |-> rest]

\* load_config: the default configuration, or a config.json whose
\* authorized_users was filled in by hand with a numeric id
InitBot ==
    /\ message = <<>> /\ max_length = 1 /\ chunks = <<>> /\ cuts = <<>> /\ cpc = "idle"
    /\ AggIdle /\ IdIdle
    /\ MedIdle /\ DlvIdle /\ FmtIdle
    /\ \E users \in {<<>>, <<PyInt(1)>>} :
          config = [topics |-> <<CS_CV, CS_AI>>, notification_time |-> NINE,
                    timezone |-> UTC, authorized_users |-> users]
    /\ update = NoUpdate /\ reply = "none" /\ fetch_calls = <<>> /\ added = {}

\* the wrapper of authorized_only lets the command through
authorized_only_Open(user_id) == TRUE

authorized_only(user_id) == PyIn(PyInt(user_id), config.authorized_users)

\* the wrapper of authorized_only answers and returns
NotAuthorized ==
    /\ reply' = "You are not authorized to use this bot."
    /\ fetch_calls' = <<>>
    /\ UNCHANGED <<config, added>>

\* a handler that only answers
Answers(text) ==
    /\ reply' = text
    /\ fetch_calls' = <<>>
    /\ UNCHANGED <<config, added>>

start ==
    \E user_id \in UserIds :
        /\ update' = Update(user_id, "start", <<>>)
        /\ IF ~authorized_only(user_id) THEN NotAuthorized ELSE Answers("Hi!")
        /\ UNCHANGED <<chunk_vars, agg_vars, id_vars, med_vars, dlv_vars, fmt_vars>>

help_command ==
    \E user_id \in UserIds :
        /\ update' = Update(user_id, "help", <<>>)
        /\ IF ~authorized_only(user_id) THEN NotAuthorized
           ELSE Answers("Available commands")
        /\ UNCHANGED <<chunk_vars, agg_vars, id_vars, med_vars, dlv_vars, fmt_vars>>

topics_command ==
    \E user_id \in UserIds :
        /\ update' = Update(user_id, "topics", <<>>)
        /\ IF ~authorized_only(user_id) THEN NotAuthorized
           ELSE Answers("Current topics")
        /\ UNCHANGED <<chunk_vars, agg_vars, id_vars, med_vars, dlv_vars, fmt_vars>>

add_topic ==
    \E user_id \in UserIds, rest \in TopicTexts :
        LET args == Words(rest)
        IN /\ update' = Update(user_id, "add_topic", rest)
           /\ IF ~authorized_only(user_id) THEN NotAuthorized
              ELSE IF args = <<>> THEN Answers("Please provide a topic to add")
              ELSE IF InList(args[1], config.topics) THEN Answers("already exists")
              ELSE /\ config' = [config EXCEPT !.topics = Append(@, args[1])]
                   /\ reply' = "Added topic"
                   /\ fetch_calls' = <<>>
                   /\ UNCHANGED added
           /\ UNCHANGED <<chunk_vars, agg_vars, id_vars, med_vars, dlv_vars,
                          fmt_vars>>

remove_topic ==
    \E user_id \in UserIds, rest \in TopicTexts :
        LET args == Words(rest)
        IN /\ update' = Update(user_id, "remove_topic", rest)
           /\ IF ~authorized_only(user_id) THEN NotAuthorized
              ELSE IF args = <<>> THEN Answers("Please provide a topic to remove")
              ELSE IF ~InList(args[1], config.topics) THEN Answers("does not exist")
              ELSE /\ config' = [config EXCEPT !.topics = RemoveFirst(@, args[1])]
                   /\ reply' = "Removed topic"
                   /\ fetch_calls' = <<>>
                   /\ UNCHANGED added
           /\ UNCHANGED <<chunk_vars, agg_vars, id_vars, med_vars, dlv_vars,
                          fmt_vars>>

set_time ==
    \E user_id \in UserIds, rest \in TimeTexts :
        LET args == Words(rest)
        IN /\ update' = Update(user_id, "set_time", rest)
           /\ IF ~authorized_only(user_id) THEN NotAuthorized
              ELSE IF Len(args) # 1 THEN Answers("Please provide time in HH:MM format")
              ELSE IF ~ValidTime(args[1]) THEN Answers("Invalid time format")
              ELSE /\ config' = [config EXCEPT !.notification_time = args[1]]
                   /\ reply' = "Notification time set"
                   /\ fetch_calls' = <<>>
                   /\ UNCHANGED added
           /\ UNCHANGED <<chunk_vars, agg_vars, id_vars, med_vars, dlv_vars,
                          fmt_vars>>

set_timezone ==
    \E user_id \in UserIds, rest \in ZoneTexts :
        LET args == Words(rest)
            timezone == Join(args, <<SP>>)
        IN /\ update' = Update(user_id, "set_timezone", rest)
           /\ IF ~authorized_only(user_id) THEN NotAuthorized
              ELSE IF args = <<>> THEN Answers("Please provide a timezone")
              ELSE IF timezone \notin KnownTimezones THEN Answers("Unknown timezone")
              ELSE /\ config' = [config EXCEPT !.timezone = timezone]
                   /\ reply' = "Timezone set"
                   /\ fetch_calls' = <<>>
                   /\ UNCHANGED added
           /\ UNCHANGED <<chunk_vars, agg_vars, id_vars, med_vars, dlv_vars,
                          fmt_vars>>

\* today_command up to its lookup; what it does with the result is
\* TodayCommand of the aggregation
today_command ==
    \E user_id \in UserIds :
        /\ update' = Update(user_id, "today", <<>>)
        /\ IF ~authorized_only(user_id) THEN NotAuthorized
           ELSE /\ reply' = "Searching for today's papers"
                /\ fetch_calls' = <<"fetch_arxiv_papers">>
                /\ UNCHANGED <<config, added>>
        /\ UNCHANGED <<chunk_vars, agg_vars, id_vars, med_vars, dlv_vars, fmt_vars>>

\* paper_abstract up to its lookup
paper_abstract ==
    \E user_id \in UserIds, rest \in IdTexts :
        /\ update' = Update(user_id, "abstract", rest)
        /\ IF ~authorized_only(user_id) THEN NotAuthorized
           ELSE IF Words(rest) = <<>> THEN Answers("Please provide an arXiv paper ID")
           ELSE /\ reply' = "Searching for paper"
                /\ fetch_calls' = <<"fetch_paper_by_id">>
                /\ UNCHANGED <<config, added>>
        /\ UNCHANGED <<chunk_vars, agg_vars, id_vars, med_vars, dlv_vars, fmt_vars>>

\* abstract_no_space up to its lookup
abstract_no_space ==
    \E user_id \in UserIds, rest \in AttachedTexts :
        /\ update' = Update(user_id, "abstract_no_space", rest)
        /\ IF ~authorized_only(user_id) THEN NotAuthorized
           ELSE IF paper_id_with_dot(Strip(rest)) = <<>>
                THEN Answers("Please provide an arXiv paper ID")
           ELSE /\ reply' = "Searching for paper"
                /\ fetch_calls' = <<"fetch_paper_by_id">>
                /\ UNCHANGED <<config, added>>
        /\ UNCHANGED <<chunk_vars, agg_vars, id_vars, med_vars, dlv_vars, fmt_vars>>

\* config['authorized_users'].append(str(user_id)); save_config(config)
Authorize(user_id, text) ==
    /\ Len(config.authorized_users) < MaxListed
    /\ config' = [config EXCEPT !.authorized_users = Append(@, PyStr(Str(user_id)))]
    /\ added' = added \cup {user_id}
    /\ reply' = text
    /\ fetch_calls' = <<>>

authorize_user ==
    \E user_id \in UserIds, rest \in UserTexts :
        LET args == Words(rest)
        IN /\ update' = Update(user_id, "authorize", rest)
           /\ IF config.authorized_users = <<>>
              THEN Authorize(user_id, "You are now authorized as the admin user.")
              ELSE IF ~PyIn(PyInt(user_id), config.authorized_users)
              THEN NotAuthorized
              ELSE IF Len(args) # 1 THEN Answers("Please provide a user ID")
              ELSE IF ~IsNumeric(args[1]) THEN Answers("Invalid user ID")
              ELSE IF PyIn(PyInt(ParseInt(args[1])), config.authorized_users)
              THEN Answers("is already authorized")
              ELSE Authorize(ParseInt(args[1]), "has been authorized")
           /\ UNCHANGED <<chunk_vars, agg_vars, id_vars, med_vars, dlv_vars,
                          fmt_vars>>

NextBot ==
    \/ start \/ help_command \/ topics_command
    \/ add_topic \/ remove_topic \/ set_time \/ set_timezone
    \/ today_command \/ paper_abstract \/ abstract_no_space
    \/ authorize_user

SpecBot == InitBot /\ [][NextBot]_vars

\* the checks of authorized_only and of authorize_user let user_id through
Accepted(user_id) ==
    \E k \in 1..Len(config.authorized_users) :
        /\ config.authorized_users[k].type = "int"
        /\ config.authorized_users[k].val = user_id

\* the number of elements of authorized_users that name user_id
Listed(user_id) ==
    Cardinality({k \in 1..Len(config.authorized_users) :
                    config.authorized_users[k].val
                        = IF config.authorized_users[k].type = "int"
                          THEN user_id ELSE Str(user_id)})

\* C22: every user id that authorize_user appended to authorized_users is
\* let through by the check of authorized_only and by the check inside
\* authorize_user from then on, so no command of such a user is answered
\* "You are not authorized to use this bot.", and authorize_user never
\* appends an id that the list names already.
C22_AddedIsAccepted ==
    /\ \A user_id \in added : Accepted(user_id)
    /\ update.user_id \in added
          => reply # "You are not authorized to use this bot."
    /\ \A user_id \in added : Listed(user_id) = 1

\* C23: a command whose sender the authorization check does not let
\* through leaves topics, notification_time, timezone and authorized_users
\* as they were and makes no provider lookup; the one exception is
\* /authorize while authorized_users is empty, which appends the sender,
\* and nothing else, to authorized_users.
C23_RejectedChangesNothing ==
    [][~Accepted(update'.user_id)
          => \/ /\ config' = config
                /\ fetch_calls' = <<>>
             \/ /\ update'.command = "authorize"
                /\ config.authorized_users = <<>>
                /\ config' = [config EXCEPT !.authorized_users =
                                                <<PyStr(Str(update'.user_id))>>]
                /\ fetch_calls' = <<>>]_vars

\* a sender who is not let through asked for a new topic and was refused
C23_Witness ==
    /\ update.command = "add_topic"
    /\ update.rest = CS_LG
    /\ ~Accepted(update.user_id)
    /\ config.authorized_users # <<>>
    /\ reply = "You are not authorized to use this bot."
    /\ ~InList(CS_LG, config.topics)
    /\ fetch_calls = <<>>

====
